---------------------------- MODULE Spec2Model ----------------------------
(***************************************************************************)
(* A model of the true_neutral book recommender:                           *)
(*   core/utils.py                 read_corpus, train_model, save/load,    *)
(*                                 get_similar_books                       *)
(*   true_neutral/true_neutral.py  the earlier, tuple-based version of the *)
(*                                 same functions                          *)
(*   true_neutral/*_scraper.py     write_books / get_single_book           *)
(*                                                                         *)
(* A Python str is a sequence of one-character strings.  An Optional value *)
(* is a sequence of length 0 (None / absent) or 1.                         *)
(***************************************************************************)
EXTENDS Integers, Sequences, FiniteSets, TLC

VARIABLES
    data,     \* the table handed to train_model (a sequence of rows)
    model,    \* the gensim Doc2Vec object handed to train_model
    gen,      \* a read_corpus generator object driven by a caller
    tm,       \* the running train_model call: position, locals, outcome
    fs,       \* the file system: directories and files
    sv,       \* the running save_trained_model / load_trained_model call
    q,        \* the running get_similar_books call
    sc        \* the running write_books call and its pool workers

vars == <<data, model, gen, tm, fs, sv, q, sc>>

-----------------------------------------------------------------------------
(* Bounds of the model *)

MaxBooks == 3

MaxCalls == 2

-----------------------------------------------------------------------------
(* Generic helpers *)

SeqsUpTo(S, n) == UNION {[1..k -> S] : k \in 0..n}

None == <<>>

Some(x) == <<x>>

Min(a, b) == IF a <= b THEN a ELSE b

\* An index kept inside 1..: Python evaluates `or` left to right and never
\* reads the element the earlier test has ruled out.
Max0(i) == IF i < 1 THEN 1 ELSE i

Injective(f) == \A i, j \in DOMAIN f : i # j => f[i] # f[j]

NoError == [cls |-> "", msg |-> ""]

Raise(c, m) == [cls |-> c, msg |-> m]

-----------------------------------------------------------------------------
(* Text: str.strip, str.replace and gensim.utils.simple_preprocess *)

IsSpace(c) == c \in {" ", "\n"}

IsAlpha(c) == c \in {"a", "d", "l", "p", "r", "s", "w", "z", "W", "S"}

Lower(c) == CASE c = "W" -> "w" [] c = "S" -> "s" [] OTHER -> c

RECURSIVE LStrip(_)
LStrip(s) == IF s # <<>> /\ IsSpace(Head(s)) THEN LStrip(Tail(s)) ELSE s

RECURSIVE RStrip(_)
RStrip(s) ==
    IF s # <<>> /\ IsSpace(s[Len(s)]) THEN RStrip(SubSeq(s, 1, Len(s) - 1)) ELSE s

Strip(s) == RStrip(LStrip(s))

ReplaceNewline(s) == [i \in 1..Len(s) |-> IF s[i] = "\n" THEN " " ELSE s[i]]

\* The runs of alphabetic characters of s, lower-cased, in order.
\* cur is the run being read, acc the runs already closed.
RECURSIVE AlphaRuns(_, _, _)
AlphaRuns(s, cur, acc) ==
    IF s = <<>>
    THEN IF cur = <<>> THEN acc ELSE Append(acc, cur)
    ELSE IF IsAlpha(Head(s))
         THEN AlphaRuns(Tail(s), Append(cur, Lower(Head(s))), acc)
         ELSE AlphaRuns(Tail(s), <<>>, IF cur = <<>> THEN acc ELSE Append(acc, cur))

\* simple_preprocess keeps the tokens of 2 to 15 characters.
RECURSIVE KeepTokens(_)
KeepTokens(ws) ==
    IF ws = <<>> THEN <<>>
    ELSE IF Len(Head(ws)) >= 2 /\ Len(Head(ws)) <= 15
         THEN <<Head(ws)>> \o KeepTokens(Tail(ws))
         ELSE KeepTokens(Tail(ws))

SimplePreprocess(text) == KeepTokens(AlphaRuns(text, <<>>, <<>>))

-----------------------------------------------------------------------------
(* Book records *)

TxtWizards == <<"w", "z", " ", "d", "r">>

TxtWizardsRaw == <<" ", "W", "z", "\n", "d", "r", ",", " ", "a", " ">>

TxtSpace == <<"s", "p", " ", "l", "z">>

Row(t, a, g, s) == [Title |-> t, Author |-> a, Genres |-> g, Summary |-> s]

\* The rows a table is drawn from: two books with the same summary, a third
\* with another, a second book titled A, and a record that lacks a summary.
Catalogue ==
    { Row(<<"A">>, <<"p">>, <<"f">>, Some(TxtWizards)),
      Row(<<"B">>, <<"q">>, <<"f">>, Some(TxtWizards)),
      Row(<<"C">>, <<"r">>, <<"s">>, Some(TxtSpace)),
      Row(<<"A">>, <<"s">>, <<"h">>, Some(TxtWizardsRaw)),
      Row(<<"D">>, <<"t">>, <<"h">>, None) }

Tables == SeqsUpTo(Catalogue, MaxBooks)

\* A and B with the one summary "wizards and dragons", C with another.
ThreeBooks ==
    << Row(<<"A">>, <<"p">>, <<"f">>, Some(TxtWizards)),
       Row(<<"B">>, <<"q">>, <<"f">>, Some(TxtWizards)),
       Row(<<"C">>, <<"r">>, <<"s">>, Some(TxtSpace)) >>

HasSummary(book) == book.Summary # None

-----------------------------------------------------------------------------
(* read_corpus: a generator.  pos is the number of books the for loop has   *)
(* taken, ctr the local counter, out what the caller has received.          *)

TaggedDocument(words, tags) == [kind |-> "TaggedDocument", words |-> words, tags |-> tags]

TokenList(words) == [kind |-> "tokens", words |-> words, tags |-> <<>>]

NoGen ==
    [status |-> "none", tokens_only |-> FALSE, pos |-> 0, ctr |-> -1,
     out |-> <<>>, error |-> NoError]

\* Calling read_corpus runs none of its body: the generator is created
\* suspended before `ctr = -1`, which the first next() executes.
ReadCorpusStartCtr == -1

ReadCorpusNew(tokens_only) ==
    [status |-> "suspended", tokens_only |-> tokens_only, pos |-> 0,
     ctr |-> ReadCorpusStartCtr, out |-> <<>>, error |-> NoError]

ReadCorpusTokens(book) ==
    SimplePreprocess(ReplaceNewline(Strip(book.Summary[1])))

\* A tag taken before the counter is advanced.
ReadCorpusTagStale(g) == g.ctr

ReadCorpusTag(g) == g.ctr + 1

\* One next() on generator g over books: the loop body up to its yield, the
\* KeyError of book["Summary"], or the end of the loop.
ReadCorpusStep(g, books) ==
    IF g.pos >= Len(books)
    THEN [g EXCEPT !.status = "exhausted"]
    ELSE LET book == books[g.pos + 1] IN
         IF ~HasSummary(book)
         THEN [g EXCEPT !.status = "raised", !.pos = g.pos + 1,
                        !.error = Raise("KeyError", "Summary")]
         ELSE IF g.tokens_only
              THEN [g EXCEPT !.pos = g.pos + 1,
                             !.out = Append(g.out, TokenList(ReadCorpusTokens(book)))]
              ELSE [g EXCEPT !.pos = g.pos + 1,
                             !.ctr = ReadCorpusTag(g),
                             !.out = Append(g.out,
                                 TaggedDocument(ReadCorpusTokens(book), <<ReadCorpusTag(g)>>))]

-----------------------------------------------------------------------------
(* The Doc2Vec object, as far as train_model drives it *)

Doc2VecNew == [vocab_built |-> FALSE, vocab |-> {}, corpus_count |-> 0, trained |-> FALSE]

CorpusWords(corpus) == UNION {{d.words[j] : j \in 1..Len(d.words)} : d \in {corpus[i] : i \in 1..Len(corpus)}}

BuildVocab(m, train_corpus) ==
    [m EXCEPT !.vocab_built = TRUE, !.vocab = CorpusWords(train_corpus),
              !.corpus_count = Len(train_corpus)]

\* gensim refuses to train a model whose vocabulary is empty.
CanTrain(m) == m.vocab_built /\ m.vocab # {}

Train(m) == [m EXCEPT !.trained = TRUE]

-----------------------------------------------------------------------------
(* train_model *)

\* A column read in the reverse of the row order.
ColumnReversed(table, name) == [i \in 1..Len(table) |-> table[Len(table) + 1 - i][name]]

Column(table, name) == [i \in 1..Len(table) |-> table[i][name]]

SummaryColumn(table) == [i \in 1..Len(table) |-> table[i].Summary[1]]

ModelData(m, titles, authors, genres, summaries, train_corpus, test_corpus) ==
    [model |-> m, titles |-> titles, authors |-> authors, genres |-> genres,
     summaries |-> summaries, train_corpus |-> train_corpus,
     test_corpus |-> test_corpus]

TmIdle ==
    [pc |-> "idle", g |-> NoGen, train_corpus |-> <<>>,
     test_corpus |-> <<>>, error |-> NoError, result |-> None]

\* The metadata arrays train_model snapshots from the table's columns.
Snapshot(table, m, train_corpus, test_corpus) ==
    ModelData(m, Column(table, "Title"), Column(table, "Author"),
              Column(table, "Genres"), SummaryColumn(table),
              train_corpus, test_corpus)

\* An exception of read_corpus caught inside list(): the documents read so
\* far are kept and train_model goes on.
ReadFailureSwallowed(t, g2) ==
    IF t.pc = "read_train"
    THEN [t EXCEPT !.train_corpus = g2.out, !.pc = "read_test", !.g = ReadCorpusNew(TRUE)]
    ELSE [t EXCEPT !.g = g2, !.test_corpus = g2.out, !.pc = "build_vocab"]

\* An exception of read_corpus leaves list() and train_model: nothing after
\* the failing line runs.
ReadFailure(t, g2) == [t EXCEPT !.g = g2, !.pc = "failed", !.error = g2.error]

\* The trainer runs once, before the bundle is queried, saved or loaded.
TrainModelCall ==
    /\ tm.pc = "idle"
    /\ gen.g.status # "suspended"
    /\ q.pc = "idle"
    /\ sv.pc = "idle"
    /\ tm' = [TmIdle EXCEPT !.pc = "read_train", !.g = ReadCorpusNew(FALSE)]
    /\ model' = Doc2VecNew
    /\ UNCHANGED <<data, gen, fs, sv, q, sc>>

\* train_corpus = list(read_corpus(books)), one next() at a time
TrainReadTrain ==
    /\ tm.pc = "read_train"
    /\ LET g2 == ReadCorpusStep(tm.g, data) IN
       tm' = CASE g2.status = "suspended" -> [tm EXCEPT !.g = g2]
               [] g2.status = "exhausted" ->
                    [tm EXCEPT !.train_corpus = g2.out, !.pc = "read_test",
                               !.g = ReadCorpusNew(TRUE)]
               [] OTHER -> ReadFailure(tm, g2)
    /\ UNCHANGED <<data, model, gen, fs, sv, q, sc>>

\* test_corpus = list(read_corpus(books, tokens_only=True))
TrainReadTest ==
    /\ tm.pc = "read_test"
    /\ LET g2 == ReadCorpusStep(tm.g, data) IN
       tm' = CASE g2.status = "suspended" -> [tm EXCEPT !.g = g2]
               [] g2.status = "exhausted" ->
                    [tm EXCEPT !.g = g2, !.test_corpus = g2.out, !.pc = "build_vocab"]
               [] OTHER -> ReadFailure(tm, g2)
    /\ UNCHANGED <<data, model, gen, fs, sv, q, sc>>

TrainBuildVocab ==
    /\ tm.pc = "build_vocab"
    /\ model' = BuildVocab(model, tm.train_corpus)
    /\ tm' = [tm EXCEPT !.pc = "train"]
    /\ UNCHANGED <<data, gen, fs, sv, q, sc>>

TrainTrain ==
    /\ tm.pc = "train"
    /\ IF CanTrain(model)
       THEN /\ model' = Train(model)
            /\ tm' = [tm EXCEPT !.pc = "snapshot"]
       ELSE /\ model' = model
            /\ tm' = [tm EXCEPT !.pc = "failed",
                        !.error = Raise("RuntimeError", "you must first build vocabulary")]
    /\ UNCHANGED <<data, gen, fs, sv, q, sc>>

TrainReturn ==
    /\ tm.pc = "snapshot"
    /\ tm' = [tm EXCEPT !.pc = "done",
                !.result = Some(Snapshot(data, model, tm.train_corpus, tm.test_corpus))]
    /\ UNCHANGED <<data, model, gen, fs, sv, q, sc>>

-----------------------------------------------------------------------------
(* read_corpus called by any other caller, which then iterates it *)

GenIdle == [g |-> NoGen, calls |-> 0]

ReadCorpusCall(tokens_only) ==
    /\ tm.pc \in {"idle", "done", "failed"}
    /\ gen.calls < MaxCalls
    /\ gen' = [g |-> ReadCorpusNew(tokens_only), calls |-> gen.calls + 1]
    /\ UNCHANGED <<data, model, tm, fs, sv, q, sc>>

ReadCorpusNext ==
    /\ tm.pc \in {"idle", "done", "failed"}
    /\ gen.g.status = "suspended"
    /\ gen' = [gen EXCEPT !.g = ReadCorpusStep(gen.g, data)]
    /\ UNCHANGED <<data, model, tm, fs, sv, q, sc>>

-----------------------------------------------------------------------------
(* get_similar_books and _get_similar_books_helper *)

MaxNsim == 2

MaxScore == 1

Scores == 0..MaxScore

\* Python truthiness of an Optional[str]: None and "" are both false.
Supplied(opt) == opt # None /\ opt[1] # <<>>

\* x in xs
Contains(xs, x) == \E i \in 1..Len(xs) : xs[i] = x

\* The highest position holding x.
IndexOfLast(xs, x) ==
    CHOOSE i \in 1..Len(xs) : xs[i] = x /\ \A j \in (i + 1)..Len(xs) : xs[j] # x

\* xs.index(x): the lowest position holding x (1-based here).
IndexOf(xs, x) == CHOOSE i \in 1..Len(xs) : xs[i] = x /\ \A j \in 1..(i - 1) : xs[j] # x

Resolved(text) == [ok |-> TRUE, summary_ |-> Some(text), error |-> NoError]

Rejected(err) == [ok |-> FALSE, summary_ |-> None, error |-> err]

ErrTitleNotInDatabase ==
    Raise("ValueError", "Title not in database. Please provide a summary of the book.")

ErrNeitherProvided ==
    Raise("ValueError", "Either title or summary of the book must be provided.")

ErrBookNotFound == Raise("ValueError", "Book not found.")

\* A supplied summary taking the place of a known title's recorded one.
ResolveCorePrefersSummary(b, title, summary) ==
    IF Supplied(summary) THEN Resolved(summary[1])
    ELSE IF Supplied(title)
         THEN IF Contains(b.titles, title[1])
              THEN Resolved(b.summaries[IndexOf(b.titles, title[1])])
              ELSE Rejected(ErrTitleNotInDatabase)
         ELSE Rejected(ErrNeitherProvided)

\* The last branch passing an empty query text on instead of raising.
ResolveCoreEmptyDefault(b, title, summary) ==
    IF Supplied(title) /\ Contains(b.titles, title[1])
    THEN Resolved(b.summaries[IndexOf(b.titles, title[1])])
    ELSE IF Supplied(summary) THEN Resolved(summary[1])
    ELSE IF Supplied(title) THEN Rejected(ErrTitleNotInDatabase)
    ELSE Resolved(<<>>)

\* The title branch taken only for a known title, so that an unknown title
\* without a summary falls through to the last branch.
ResolveCoreUnknownFallsThrough(b, title, summary) ==
    IF Supplied(title) /\ Contains(b.titles, title[1])
    THEN Resolved(b.summaries[IndexOf(b.titles, title[1])])
    ELSE IF Supplied(summary) THEN Resolved(summary[1])
    ELSE Rejected(ErrNeitherProvided)

\* core/utils.py, get_similar_books: the if / elif chain that sets summary_
ResolveCore(b, title, summary) ==
    IF Supplied(title) /\ Supplied(summary)
    THEN IF Contains(b.titles, title[1])
         THEN Resolved(b.summaries[IndexOf(b.titles, title[1])])
         ELSE Resolved(summary[1])
    ELSE IF Supplied(title)
         THEN IF Contains(b.titles, title[1])
              THEN Resolved(b.summaries[IndexOf(b.titles, title[1])])
              ELSE Rejected(ErrTitleNotInDatabase)
         ELSE IF Supplied(summary)
              THEN Resolved(summary[1])
              ELSE Rejected(ErrNeitherProvided)

\* true_neutral.py, get_similar_books: `if book not in titles: raise`
ResolveLegacy(b, book) ==
    IF book # None /\ Contains(b.titles, book[1])
    THEN Resolved(b.summaries[IndexOf(b.titles, book[1])])
    ELSE Rejected(ErrBookNotFound)

Resolve(impl, b, title, summary) ==
    IF impl = "core" THEN ResolveCore(b, title, summary) ELSE ResolveLegacy(b, title)

NonIncreasing(f) == \A i \in DOMAIN f : i + 1 \in DOMAIN f => f[i] >= f[i + 1]

\* model.docvecs.most_similar([vector], topn): what it can return on a model
\* of n document vectors.  The vectors are the outcome of training and of
\* infer_vector, which the source does not fix: any ranking of min(topn, n)
\* distinct tags with non-increasing scores can come back.
MostSimilar(n, topn) ==
    LET k == Min(topn, n) IN
    { [i \in 1..k |-> <<tags[i], scores[i]>>] :
        tags \in {f \in [1..k -> 0..(n - 1)] : Injective(f)},
        scores \in {f \in [1..k -> Scores] : NonIncreasing(f)} }

\* The (Book, score) pair, or the legacy dict, built from one entry of sims.
BookOf(impl, show_summary, b, s) ==
    [title |-> b.titles[s[1] + 1], author |-> b.authors[s[1] + 1],
     genres |-> b.genres[s[1] + 1],
     summary |-> IF impl = "core" \/ show_summary
                 THEN Some(b.summaries[s[1] + 1]) ELSE None,
     score |-> s[2]]

\* books[1:]
DropFirst(books) == IF books = <<>> THEN <<>> ELSE Tail(books)

Books(impl, show_summary, b, sims) ==
    DropFirst([i \in 1..Len(sims) |-> BookOf(impl, show_summary, b, sims[i])])

QIdle ==
    [pc |-> "idle", impl |-> "core", model_data |-> None, title |-> None, summary |-> None, nsim |-> 1,
     show_summary |-> FALSE, summary_ |-> None, query_tokens |-> <<>>,
     inferred |-> FALSE, ranked |-> FALSE, sims |-> <<>>, result |-> None,
     error |-> NoError, prior |-> {"unrecorded"}]

\* How the calls before this one ended, in the runs that start with a record
\* of it.
PriorOutcomes ==
    IF "unrecorded" \in q.prior \/ q.pc = "idle" THEN q.prior ELSE q.prior \cup {q.pc}

QueryTitles == {None, Some(<<>>), Some(<<"A">>), Some(<<"Z">>)}

QuerySummaries == {None, Some(<<>>), Some(TxtSpace)}

\* The model_data argument of the call in progress (or of the last one).
Bundle == q.model_data[1]

\* The call and the resolution of the query text (or the raise).
QueryCall(impl, title, summary, nsim, show_summary) ==
    /\ q.pc \in {"idle", "returned", "raised"}
    /\ tm.pc = "done"
    /\ impl = "core" => ~show_summary
    /\ impl = "legacy" => summary = None
    /\ LET r == Resolve(impl, tm.result[1], title, summary) IN
       q' = [QIdle EXCEPT !.pc = IF r.ok THEN "helper" ELSE "raised",
                          !.impl = impl, !.model_data = tm.result, !.title = title, !.summary = summary,
                          !.nsim = nsim, !.show_summary = show_summary,
                          !.summary_ = r.summary_, !.error = r.error,
                          !.prior = PriorOutcomes]
    /\ UNCHANGED <<data, model, gen, tm, fs, sv, sc>>

\* query_tokens = simple_preprocess(summary); model.infer_vector(query_tokens)
QueryInfer ==
    /\ q.pc = "helper"
    /\ q' = [q EXCEPT !.pc = "inferred", !.inferred = TRUE,
                      !.query_tokens = SimplePreprocess(q.summary_[1])]
    /\ UNCHANGED <<data, model, gen, tm, fs, sv, sc>>

\* sims = model.docvecs.most_similar([inferred_vector], topn=nsim + 1)
QueryMostSimilar ==
    /\ q.pc = "inferred"
    /\ \E sims \in MostSimilar(Bundle.model.corpus_count, q.nsim + 1) :
          q' = [q EXCEPT !.pc = "ranked", !.ranked = TRUE, !.sims = sims]
    /\ UNCHANGED <<data, model, gen, tm, fs, sv, sc>>

\* A return that leaves out the first book by deleting entry 0 of the
\* bundle's own four lists.
QueryReturnPoppingBundle ==
    /\ q.pc = "ranked"
    /\ q' = [q EXCEPT !.pc = "returned",
                      !.result = Some(Books(q.impl, q.show_summary, Bundle, q.sims))]
    /\ tm' = [tm EXCEPT !.result =
                Some([Bundle EXCEPT !.titles = DropFirst(Bundle.titles),
                                    !.authors = DropFirst(Bundle.authors),
                                    !.genres = DropFirst(Bundle.genres),
                                    !.summaries = DropFirst(Bundle.summaries)])]
    /\ UNCHANGED <<data, model, gen, fs, sv, sc>>

\* the loop over sims and `return books[1:]`
QueryReturn ==
    /\ q.pc = "ranked"
    /\ q' = [q EXCEPT !.pc = "returned",
                      !.result = Some(Books(q.impl, q.show_summary, Bundle, q.sims))]
    /\ UNCHANGED <<data, model, gen, tm, fs, sv, sc>>

-----------------------------------------------------------------------------
(* pickle: the stream pickle.dump writes and the stack machine pickle.load  *)
(* runs over it.  An opcode carries a number, a str, a class name or (for   *)
(* the Doc2Vec object, whose own pickling gensim owns) the model's state.   *)

PickleProtocol == 4

Op(op, n, s, cls, m) == [op |-> op, n |-> n, s |-> s, cls |-> cls, m |-> m]

Op0(op) == Op(op, 0, <<>>, "", Doc2VecNew)

RECURSIVE Concat(_)
Concat(streams) ==
    IF streams = <<>> THEN <<>> ELSE Head(streams) \o Concat(Tail(streams))

PStr(s) == <<Op("BINUNICODE", 0, s, "", Doc2VecNew)>>

PInt(n) == <<Op("BININT", n, <<>>, "", Doc2VecNew)>>

PModel(m) == <<Op("MODEL", 0, <<>>, "", m)>>

\* A list: EMPTY_LIST, then its items between MARK and APPENDS.
PList(items) ==
    <<Op0("EMPTY_LIST")>> \o
    (IF items = <<>> THEN <<>> ELSE <<Op0("MARK")>> \o Concat(items) \o <<Op0("APPENDS")>>)

PStrList(xs) == PList([i \in 1..Len(xs) |-> PStr(xs[i])])

PIntList(xs) == PList([i \in 1..Len(xs) |-> PInt(xs[i])])

\* A namedtuple: its class, the tuple of its fields, NEWOBJ.
PNamedTuple(cls, fields) ==
    <<Op("GLOBAL", 0, <<>>, cls, Doc2VecNew), Op0("MARK")>> \o Concat(fields)
        \o <<Op0("TUPLE"), Op0("NEWOBJ")>>

PDoc(d) ==
    IF d.kind = "TaggedDocument"
    THEN PNamedTuple("TaggedDocument", <<PStrList(d.words), PIntList(d.tags)>>)
    ELSE PStrList(d.words)

PCorpus(c) == PList([i \in 1..Len(c) |-> PDoc(c[i])])

PickleDump(body, protocol) ==
    <<Op("PROTO", protocol, <<>>, "", Doc2VecNew)>> \o body \o <<Op0("STOP")>>

PModelData(b) ==
    PNamedTuple("ModelData",
        <<PModel(b.model), PStrList(b.titles), PStrList(b.authors),
          PStrList(b.genres), PStrList(b.summaries), PCorpus(b.train_corpus),
          PCorpus(b.test_corpus)>>)

\* Values on the unpickler's stack.
Val(k, n, s, cls, m, items) ==
    [k |-> k, n |-> n, s |-> s, cls |-> cls, m |-> m, items |-> items]

Loaded(v) == [ok |-> TRUE, value |-> v, error |-> NoError]

LoadFails(c, msg) ==
    [ok |-> FALSE, value |-> Val("none", 0, <<>>, "", Doc2VecNew, <<>>),
     error |-> Raise(c, msg)]

\* The position of the topmost MARK on the stack, 0 when there is none.
TopMark(st) ==
    LET marks == {i \in 1..Len(st) : st[i].k = "mark"} IN
    IF marks = {} THEN 0 ELSE CHOOSE i \in marks : \A j \in marks : j <= i

RECURSIVE Exec(_, _, _)
Exec(ops, i, st) ==
    IF i > Len(ops) THEN LoadFails("EOFError", "Ran out of input")
    ELSE LET o == ops[i]
             mk == TopMark(st)
             n == Len(st)
         IN
         CASE o.op = "PROTO" -> Exec(ops, i + 1, st)
           [] o.op = "BINUNICODE" ->
                Exec(ops, i + 1, Append(st, Val("str", 0, o.s, "", Doc2VecNew, <<>>)))
           [] o.op = "BININT" ->
                Exec(ops, i + 1, Append(st, Val("int", o.n, <<>>, "", Doc2VecNew, <<>>)))
           [] o.op = "MODEL" ->
                Exec(ops, i + 1, Append(st, Val("model", 0, <<>>, "", o.m, <<>>)))
           [] o.op = "GLOBAL" ->
                Exec(ops, i + 1, Append(st, Val("class", 0, <<>>, o.cls, Doc2VecNew, <<>>)))
           [] o.op = "EMPTY_LIST" ->
                Exec(ops, i + 1, Append(st, Val("list", 0, <<>>, "", Doc2VecNew, <<>>)))
           [] o.op = "MARK" ->
                Exec(ops, i + 1, Append(st, Val("mark", 0, <<>>, "", Doc2VecNew, <<>>)))
           [] o.op = "APPENDS" ->
                IF mk < 2 \/ st[Max0(mk - 1)].k # "list"
                THEN LoadFails("UnpicklingError", "could not find MARK")
                ELSE Exec(ops, i + 1,
                          Append(SubSeq(st, 1, mk - 2),
                                 Val("list", 0, <<>>, "", Doc2VecNew,
                                     st[mk - 1].items \o SubSeq(st, mk + 1, n))))
           [] o.op = "TUPLE" ->
                IF mk = 0
                THEN LoadFails("UnpicklingError", "could not find MARK")
                ELSE Exec(ops, i + 1,
                          Append(SubSeq(st, 1, mk - 1),
                                 Val("tuple", 0, <<>>, "", Doc2VecNew, SubSeq(st, mk + 1, n))))
           [] o.op = "NEWOBJ" ->
                IF n < 2 \/ st[Max0(n)].k # "tuple" \/ st[Max0(n - 1)].k # "class"
                THEN LoadFails("UnpicklingError", "NEWOBJ class argument")
                ELSE Exec(ops, i + 1,
                          Append(SubSeq(st, 1, n - 2),
                                 Val("obj", 0, <<>>, st[n - 1].cls, Doc2VecNew, st[n].items)))
           [] o.op = "STOP" ->
                IF n = 0 THEN LoadFails("UnpicklingError", "pickle stack empty")
                ELSE Loaded(st[n])
           [] OTHER -> LoadFails("UnpicklingError", "invalid load key")

PickleLoad(stream) == Exec(stream, 1, <<>>)

AsStrList(v) == [i \in 1..Len(v.items) |-> v.items[i].s]

AsIntList(v) == [i \in 1..Len(v.items) |-> v.items[i].n]

AsDoc(v) ==
    IF v.k = "obj"
    THEN TaggedDocument(AsStrList(v.items[1]), AsIntList(v.items[2]))
    ELSE TokenList(AsStrList(v))

AsCorpus(v) == [i \in 1..Len(v.items) |-> AsDoc(v.items[i])]

AsModelData(v) ==
    ModelData(v.items[1].m, AsStrList(v.items[2]), AsStrList(v.items[3]),
              AsStrList(v.items[4]), AsStrList(v.items[5]),
              AsCorpus(v.items[6]), AsCorpus(v.items[7]))

-----------------------------------------------------------------------------
(* The file system, and the files of the two versions of save / load *)

Paths ==
    {"bundle.pkl", "tag.trainedmodel", "tag_titles.pkl", "tag_authors.pkl",
     "tag_genres.pkl", "tag_summaries.pkl", "tag_train_corpus.pkl",
     "tag_test_corpus.pkl"}

\* The files a save writes, in the order it writes them.
FilesOf(impl) ==
    IF impl = "core" THEN <<"bundle.pkl">>
    ELSE <<"tag.trainedmodel", "tag_titles.pkl", "tag_authors.pkl",
           "tag_genres.pkl", "tag_summaries.pkl", "tag_train_corpus.pkl",
           "tag_test_corpus.pkl">>

\* What a save writes into its k-th file.  pickle.dump without a protocol
\* argument uses the interpreter's default, taken here to be the same.
StreamOf(impl, k, b) ==
    IF impl = "core" THEN PickleDump(PModelData(b), PickleProtocol)
    ELSE PickleDump(
           CASE k = 1 -> PModel(b.model)
             [] k = 2 -> PStrList(b.titles)
             [] k = 3 -> PStrList(b.authors)
             [] k = 4 -> PStrList(b.genres)
             [] k = 5 -> PStrList(b.summaries)
             [] k = 6 -> PCorpus(b.train_corpus)
             [] OTHER -> PCorpus(b.test_corpus),
           PickleProtocol)

FsEmpty == [dir |-> FALSE, files |-> [p \in Paths |-> None]]

\* A bundle saved by an earlier run.
OldBundle ==
    ModelData([vocab_built |-> TRUE, vocab |-> {<<"l", "d">>}, corpus_count |-> 1,
               trained |-> TRUE],
              << <<"O">> >>, << <<"o">> >>, << <<"g">> >>, << <<"l", "d">> >>,
              <<TaggedDocument(<< <<"l", "d">> >>, <<0>>)>>,
              <<TokenList(<< <<"l", "d">> >>)>>)

OldFiles ==
    [p \in Paths |->
        IF p = "bundle.pkl" THEN Some(StreamOf("core", 1, OldBundle))
        ELSE Some(StreamOf("legacy",
                  CHOOSE k \in 1..Len(FilesOf("legacy")) : FilesOf("legacy")[k] = p,
                  OldBundle))]

\* No folder yet, an empty folder, or a folder holding an earlier save.
InitialFs ==
    {FsEmpty, [dir |-> TRUE, files |-> [p \in Paths |-> None]],
     [dir |-> TRUE, files |-> OldFiles]}

\* open(path, "wb"): the file is created, or cut to length 0.
OpenForWrite(files, path) == [files EXCEPT ![path] = Some(<<>>)]

\* A failed open that has cut the file all the same.
FailedOpenTruncates(files, path) == [files EXCEPT ![path] = Some(<<>>)]

\* An open(path, "wb") that raises leaves the file as it was.
FailedOpen(files, path) == files

Prefix(stream, n) == SubSeq(stream, 1, n)

\* The lengths a failing dump can leave behind: nothing flushed, or about
\* half of the stream.
CutPoints(stream) == {0, Len(stream) \div 2}

-----------------------------------------------------------------------------
(* save_trained_model and load_trained_model *)

SvIdle ==
    [op |-> "none", impl |-> "core", pc |-> "idle", k |-> 0, calls |-> 0,
     model_data |-> None, before |-> FsEmpty.files, opened |-> 0,
     saved |-> None, loaded |-> None, error |-> NoError]

SvAtRest == sv.pc \in {"idle", "returned", "raised"}

SaveCall(impl) ==
    /\ SvAtRest
    /\ tm.pc = "done"
    /\ sv.calls < MaxCalls
    /\ sv' = [SvIdle EXCEPT !.op = "save", !.impl = impl, !.pc = "mkdir",
                            !.calls = sv.calls + 1, !.model_data = tm.result,
                            !.before = fs.files]
    /\ UNCHANGED <<data, model, gen, tm, fs, q, sc>>

\* core: p.mkdir(parents=True, exist_ok=True); legacy: mkdir if not p.exists().
\* Creating the folder can fail; finding it there cannot.
SaveMkdir ==
    /\ sv.op = "save" /\ sv.pc = "mkdir"
    /\ \/ /\ fs' = [fs EXCEPT !.dir = TRUE]
          /\ sv' = [sv EXCEPT !.pc = "open", !.k = 1]
       \/ /\ ~fs.dir
          /\ fs' = fs
          /\ sv' = [sv EXCEPT !.pc = "raised",
                      !.error = Raise("OSError", "mkdir")]
    /\ UNCHANGED <<data, model, gen, tm, q, sc>>

\* fp.open("wb") / open(..., "wb") / the open inside model.save
SaveOpen ==
    /\ sv.op = "save" /\ sv.pc = "open"
    /\ LET path == FilesOf(sv.impl)[sv.k] IN
       \/ /\ fs' = [fs EXCEPT !.files = OpenForWrite(fs.files, path)]
          /\ sv' = [sv EXCEPT !.pc = "dump", !.opened = sv.k]
       \/ /\ fs' = [fs EXCEPT !.files = FailedOpen(fs.files, path)]
          /\ sv' = [sv EXCEPT !.pc = "raised", !.error = Raise("OSError", "open")]
    /\ UNCHANGED <<data, model, gen, tm, q, sc>>

\* pickle.dump into the open file, and the close at the end of the `with`
SaveDump ==
    /\ sv.op = "save" /\ sv.pc = "dump"
    /\ LET path == FilesOf(sv.impl)[sv.k]
           stream == StreamOf(sv.impl, sv.k, sv.model_data[1])
       IN
       \/ /\ fs' = [fs EXCEPT !.files[path] = Some(stream)]
          /\ sv' = IF sv.k < Len(FilesOf(sv.impl))
                   THEN [sv EXCEPT !.pc = "open", !.k = sv.k + 1]
                   ELSE [sv EXCEPT !.pc = "returned",
                            !.saved = Some([impl |-> sv.impl, bundle |-> sv.model_data[1]])]
       \/ \E n \in CutPoints(stream) :
            /\ fs' = [fs EXCEPT !.files[path] = Some(Prefix(stream, n))]
            /\ sv' = [sv EXCEPT !.pc = "raised", !.error = Raise("OSError", "write")]
    /\ UNCHANGED <<data, model, gen, tm, q, sc>>

LoadCall(impl) ==
    /\ SvAtRest
    /\ tm.pc \in {"idle", "done", "failed"}
    /\ sv.calls < MaxCalls
    /\ sv' = [SvIdle EXCEPT !.op = "load", !.impl = impl, !.pc = "open", !.k = 1,
                            !.calls = sv.calls + 1, !.saved = sv.saved,
                            !.before = fs.files]
    /\ UNCHANGED <<data, model, gen, tm, fs, q, sc>>

\* core: fp.open("rb"), pickle.load(f), return model_data
LoadCore ==
    /\ sv.op = "load" /\ sv.impl = "core" /\ sv.pc = "open"
    /\ LET f == fs.files[FilesOf("core")[1]] IN
       IF f = None
       THEN sv' = [sv EXCEPT !.pc = "raised",
                      !.error = Raise("FileNotFoundError", "bundle.pkl")]
       ELSE LET r == PickleLoad(f[1]) IN
            IF r.ok
            THEN sv' = [sv EXCEPT !.pc = "returned", !.loaded = Some(AsModelData(r.value))]
            ELSE sv' = [sv EXCEPT !.pc = "raised", !.error = r.error]
    /\ UNCHANGED <<data, model, gen, tm, fs, q, sc>>

\* legacy: gensim.models.Word2Vec.load(fname_tag + ".trainedmodel")
LoadLegacyModel ==
    /\ sv.op = "load" /\ sv.impl = "legacy" /\ sv.pc = "open"
    /\ LET f == fs.files[FilesOf("legacy")[1]] IN
       IF f = None
       THEN sv' = [sv EXCEPT !.pc = "raised",
                      !.error = Raise("FileNotFoundError", "tag.trainedmodel")]
       ELSE LET r == PickleLoad(f[1]) IN
            IF r.ok
            THEN sv' = [sv EXCEPT !.pc = "titles", !.k = 2]
            ELSE sv' = [sv EXCEPT !.pc = "raised", !.error = r.error]
    /\ UNCHANGED <<data, model, gen, tm, fs, q, sc>>

\* legacy: open(fname + "_titles.pkl", "rb"), where no name `fname` exists:
\* the parameter is fname_tag.
LoadLegacyTitles ==
    /\ sv.op = "load" /\ sv.impl = "legacy" /\ sv.pc = "titles"
    /\ sv' = [sv EXCEPT !.pc = "raised",
                !.error = Raise("NameError", "name 'fname' is not defined")]
    /\ UNCHANGED <<data, model, gen, tm, fs, q, sc>>

-----------------------------------------------------------------------------
(* write_books and get_single_book of goodreads_scraper.py and              *)
(* rising_shadow_scraper.py (the two differ in the length of a sleep)       *)

MaxLinks == 2

MaxProcs == 2

Links == {"u", "v"}

\* The keys get_single_book sets, in the order it sets them.
Fields == <<"id", "title", "authors", "genres", "description">>

\* book = defaultdict(str) with the first k keys set; "id" is get_id(url).
Book(url, k) ==
    [filled |-> TRUE, keys |-> {Fields[j] : j \in 1..k},
     id |-> IF k >= 1 THEN url ELSE ""]

\* A slot of the map's result list that no worker has filled yet.
Unset == [filled |-> FALSE, keys |-> {}, id |-> ""]

\* What get_single_book can return: the request raises or the status is not
\* 200 (no key), a later line raises (the keys set before it), or all keys.
GetSingleBook(url) == {Book(url, k) : k \in 0..Len(Fields)}

\* starmap hands back its result list as soon as one slot is filled.
StarmapReadyEarly(results) == \E i \in 1..Len(results) : results[i].filled

\* starmap blocks until every slot of its result list is filled.
StarmapReady(results) == \A i \in 1..Len(results) : results[i].filled

OldOut == Some(<<Book("o", Len(Fields))>>)

ScIdle ==
    [pc |-> "idle", book_links |-> <<>>, nprocs |-> 0, workers |-> <<>>,
     next |-> 1, results |-> <<>>, finished |-> <<>>, books |-> <<>>,
     before |-> None, out |-> None, opened |-> FALSE, written |-> 0,
     error |-> NoError]

\* with Pool(nprocs) as p: ... p.starmap(get_single_book, zip(book_links, ...))
WriteBooksCall(book_links, nprocs) ==
    /\ sc.pc = "idle"
    /\ IF nprocs < 1
       THEN sc' = [sc EXCEPT !.pc = "raised", !.nprocs = nprocs,
                      !.book_links = book_links,
                      !.error = Raise("ValueError",
                                      "Number of processes must be at least 1")]
       ELSE sc' = [sc EXCEPT !.pc = "map", !.nprocs = nprocs,
                      !.book_links = book_links,
                      !.workers = [w \in 1..nprocs |-> 0],
                      !.results = [i \in 1..Len(book_links) |-> Unset]]
    /\ UNCHANGED <<data, model, gen, tm, fs, sv, q>>

\* An idle worker takes the next task off the pool's queue.
WorkerTake(w) ==
    /\ sc.pc = "map"
    /\ w \in 1..Len(sc.workers)
    /\ sc.workers[w] = 0
    /\ sc.next <= Len(sc.book_links)
    /\ sc' = [sc EXCEPT !.workers[w] = sc.next, !.next = sc.next + 1]
    /\ UNCHANGED <<data, model, gen, tm, fs, sv, q>>

\* A result put in the next free slot, in the order the workers finish.
WorkerReturnUnordered(w) ==
    /\ sc.pc = "map"
    /\ w \in 1..Len(sc.workers)
    /\ sc.workers[w] # 0
    /\ LET i == sc.workers[w] IN
       \E book \in GetSingleBook(sc.book_links[i]) :
          sc' = [sc EXCEPT !.results[Len(sc.finished) + 1] = book, !.workers[w] = 0,
                           !.finished = Append(sc.finished, i)]
    /\ UNCHANGED <<data, model, gen, tm, fs, sv, q>>

\* The worker's get_single_book returns, and the result goes to its slot.
WorkerReturn(w) ==
    /\ sc.pc = "map"
    /\ w \in 1..Len(sc.workers)
    /\ sc.workers[w] # 0
    /\ LET i == sc.workers[w] IN
       \E book \in GetSingleBook(sc.book_links[i]) :
          sc' = [sc EXCEPT !.results[i] = book, !.workers[w] = 0,
                           !.finished = Append(sc.finished, i)]
    /\ UNCHANGED <<data, model, gen, tm, fs, sv, q>>

\* books = p.starmap(...)
StarmapReturn ==
    /\ sc.pc = "map"
    /\ StarmapReady(sc.results)
    /\ sc' = [sc EXCEPT !.pc = "exit", !.books = sc.results]
    /\ UNCHANGED <<data, model, gen, tm, fs, sv, q>>

\* the end of `with Pool(nprocs) as p`: the pool is terminated
PoolExit ==
    /\ sc.pc = "exit"
    /\ sc' = [sc EXCEPT !.pc = "open", !.workers = <<>>]
    /\ UNCHANGED <<data, model, gen, tm, fs, sv, q>>

\* jsonlines.open(out, mode="w")
OpenOut ==
    /\ sc.pc = "open"
    /\ \/ sc' = [sc EXCEPT !.pc = "write", !.opened = TRUE, !.out = Some(<<>>)]
       \/ sc' = [sc EXCEPT !.pc = "raised", !.error = Raise("OSError", "open")]
    /\ UNCHANGED <<data, model, gen, tm, fs, sv, q>>

\* for book in books: writer.write(book)
WriteBook ==
    /\ sc.pc = "write"
    /\ sc.written < Len(sc.books)
    /\ \/ sc' = [sc EXCEPT !.written = sc.written + 1,
                    !.out = Some(Append(sc.out[1], sc.books[sc.written + 1]))]
       \/ sc' = [sc EXCEPT !.pc = "raised", !.error = Raise("OSError", "write")]
    /\ UNCHANGED <<data, model, gen, tm, fs, sv, q>>

\* the end of the loop and of the `with`, and the return
WriteBooksReturn ==
    /\ sc.pc = "write"
    /\ sc.written = Len(sc.books)
    /\ sc' = [sc EXCEPT !.pc = "returned"]
    /\ UNCHANGED <<data, model, gen, tm, fs, sv, q>>

-----------------------------------------------------------------------------
(* Specifications.  Each starts from a table and runs train_model; they     *)
(* differ in what is then done with the bundle.                             *)

InitTrain ==
    /\ data \in Tables
    /\ model = Doc2VecNew
    /\ gen = GenIdle
    /\ tm = TmIdle
    /\ fs = FsEmpty
    /\ sv = SvIdle
    /\ q = QIdle
    /\ sc = ScIdle

NextTrain ==
    \/ TrainModelCall
    \/ TrainReadTrain
    \/ TrainReadTest
    \/ TrainBuildVocab
    \/ TrainTrain
    \/ TrainReturn
    \/ \E tokens_only \in BOOLEAN : ReadCorpusCall(tokens_only)
    \/ ReadCorpusNext

SpecTrain == InitTrain /\ [][NextTrain]_vars

\* Tables of pairwise distinct rows.
QueryTables == {t \in Tables : Injective(t)}

\* The bundle a query receives is the one a train_model call returned.
InitQuery ==
    /\ data \in QueryTables
    /\ model = Doc2VecNew
    /\ gen = GenIdle
    /\ tm = TmIdle
    /\ fs = FsEmpty
    /\ sv = SvIdle
    /\ q = QIdle
    /\ sc = ScIdle

NextQuery ==
    \/ TrainModelCall
    \/ TrainReadTrain
    \/ TrainReadTest
    \/ TrainBuildVocab
    \/ TrainTrain
    \/ TrainReturn
    \/ \E impl \in {"core", "legacy"}, title \in QueryTitles,
          summary \in QuerySummaries, nsim \in 1..MaxNsim, show \in BOOLEAN :
          QueryCall(impl, title, summary, nsim, show)
    \/ QueryInfer
    \/ QueryMostSimilar
    \/ QueryReturn

SpecQuery == InitQuery /\ [][NextQuery]_vars

\* A session of queries on one bundle, with a record of how the earlier
\* calls ended: the tables of one or two books with summaries, and the
\* three books A, B, C.
SessionTables ==
    {t \in QueryTables : Len(t) \in 1..2 /\ \A i \in 1..Len(t) : HasSummary(t[i])}
        \cup {ThreeBooks}

InitSession ==
    /\ data \in SessionTables
    /\ model = Doc2VecNew
    /\ gen = GenIdle
    /\ tm = TmIdle
    /\ fs = FsEmpty
    /\ sv = SvIdle
    /\ q = [QIdle EXCEPT !.prior = {}]
    /\ sc = ScIdle

SpecSession == InitSession /\ [][NextQuery]_vars

\* What is saved does not depend on which books the table holds: the tables
\* of distinct rows with a summary and a title of their own, and the empty one.
PersistTables ==
    {t \in Tables :
        /\ Injective(t)
        /\ \A i \in 1..Len(t) : HasSummary(t[i]) /\ t[i].Title \in {<<"B">>, <<"C">>}}

InitPersist ==
    /\ data \in PersistTables
    /\ model = Doc2VecNew
    /\ gen = GenIdle
    /\ tm = TmIdle
    /\ fs \in InitialFs
    /\ sv = SvIdle
    /\ q = QIdle
    /\ sc = ScIdle

NextPersist ==
    \/ TrainModelCall
    \/ TrainReadTrain
    \/ TrainReadTest
    \/ TrainBuildVocab
    \/ TrainTrain
    \/ TrainReturn
    \/ \E impl \in {"core", "legacy"} : SaveCall(impl)
    \/ SaveMkdir
    \/ SaveOpen
    \/ SaveDump
    \/ \E impl \in {"core", "legacy"} : LoadCall(impl)
    \/ LoadCore
    \/ LoadLegacyModel
    \/ LoadLegacyTitles

SpecPersist == InitPersist /\ [][NextPersist]_vars

\* The output file is absent, or there from an earlier run.
InitScrape ==
    /\ data = <<>>
    /\ model = Doc2VecNew
    /\ gen = GenIdle
    /\ tm = TmIdle
    /\ fs = FsEmpty
    /\ sv = SvIdle
    /\ q = QIdle
    /\ \E old \in {None, OldOut} : sc = [ScIdle EXCEPT !.before = old, !.out = old]

NextScrape ==
    \/ \E book_links \in SeqsUpTo(Links, MaxLinks), nprocs \in 0..MaxProcs :
          WriteBooksCall(book_links, nprocs)
    \/ \E w \in 1..MaxProcs : WorkerTake(w)
    \/ \E w \in 1..MaxProcs : WorkerReturn(w)
    \/ StarmapReturn
    \/ PoolExit
    \/ OpenOut
    \/ WriteBook
    \/ WriteBooksReturn

SpecScrape == InitScrape /\ [][NextScrape]_vars


-----------------------------------------------------------------------------
(* Properties of read_corpus and train_model *)

\* C3: after train_model, entry i of titles, authors, genres and summaries
\* comes from input row i, the training document at position i carries tag
\* i and the tokens of row i's summary, and the four arrays and the training
\* corpus all have the table's length.
C3_TrainAligned ==
    tm.pc = "done" =>
        LET b == tm.result[1]
            N == Len(data)
        IN /\ Len(b.titles) = N /\ Len(b.authors) = N /\ Len(b.genres) = N
           /\ Len(b.summaries) = N /\ Len(b.train_corpus) = N
           /\ \A i \in 1..N :
                /\ b.titles[i] = data[i].Title
                /\ b.authors[i] = data[i].Author
                /\ b.genres[i] = data[i].Genres
                /\ b.summaries[i] = data[i].Summary[1]
                /\ b.train_corpus[i].tags = <<i - 1>>
                /\ b.train_corpus[i].words = ReadCorpusTokens(data[i])

C3_Witness ==
    /\ tm.pc = "done"
    /\ Len(data) = MaxBooks
    /\ data[1].Title # data[2].Title
    /\ data[1].Summary # data[2].Summary

TaggedInOrder(out) ==
    \A k \in 1..Len(out) :
        out[k].kind = "TaggedDocument" /\ out[k].tags = <<k - 1>>

TokensOnly(out) ==
    \A k \in 1..Len(out) : out[k].kind = "tokens" /\ out[k].tags = <<>>

GenWellTagged(g) ==
    /\ g.tokens_only => TokensOnly(g.out)
    /\ ~g.tokens_only => TaggedInOrder(g.out)
    /\ g.status = "exhausted" => Len(g.out) = Len(data)

\* C4: a tagged read_corpus over N records yields N documents tagged 0..N-1
\* in input order, no tag twice; a tokens-only one yields N token lists and
\* no tag; every call, the second as the first, starts tagging at 0.
C4_ReadCorpusTags ==
    /\ GenWellTagged(gen.g)
    /\ GenWellTagged(tm.g)
    /\ TaggedInOrder(tm.train_corpus)
    /\ TokensOnly(tm.test_corpus)

C4_Witness ==
    /\ gen.calls = MaxCalls
    /\ ~gen.g.tokens_only
    /\ gen.g.status = "exhausted"
    /\ Len(gen.g.out) >= 2
    /\ tm.pc = "done"
    /\ Len(tm.test_corpus) >= 2

\* The spec's MissingFieldError is the KeyError of book["Summary"].
MissingFieldError == Raise("KeyError", "Summary")

LacksSummary(table) == \E i \in 1..Len(table) : ~HasSummary(table[i])

GenFailsAtMissing(g) ==
    /\ g.status = "raised" =>
          /\ g.error = MissingFieldError
          /\ ~HasSummary(data[g.pos])
          /\ \A i \in 1..(g.pos - 1) : HasSummary(data[i])
    /\ (g.status = "exhausted" /\ g.pos >= Len(data)) => ~LacksSummary(data)

\* C9: read_corpus raises at the first record without a summary; in
\* train_model that is before build_vocab and train, and no bundle results.
C9_MissingSummaryFails ==
    /\ GenFailsAtMissing(gen.g)
    /\ GenFailsAtMissing(tm.g)
    /\ LacksSummary(data) =>
          /\ tm.pc \notin {"build_vocab", "train", "snapshot", "done"}
          /\ ~model.vocab_built
          /\ ~model.trained
          /\ tm.result = None
    /\ (tm.pc = "failed" /\ tm.error = MissingFieldError) =>
          /\ LacksSummary(data)
          /\ ~model.vocab_built
          /\ ~model.trained
          /\ tm.result = None

C9_Witness ==
    /\ tm.pc = "failed"
    /\ tm.error = MissingFieldError
    /\ tm.g.pos = 2
    /\ Len(tm.g.out) = 1

-----------------------------------------------------------------------------
(* Properties of get_similar_books *)

KnownTitle == Supplied(q.title) /\ Contains(Bundle.titles, q.title[1])

\* C1: a query by a title of the bundle returns exactly nsim pairs, none of
\* them carrying the queried title, in descending order of score.
C1_TitleQueryReturnsNsimOthers ==
    (q.pc = "returned" /\ KnownTitle) =>
        LET r == q.result[1] IN
        /\ Len(r) = q.nsim
        /\ \A i \in 1..Len(r) : r[i].title # q.title[1]
        /\ \A i \in 1..(Len(r) - 1) : r[i].score >= r[i + 1].score

Accepted == q.pc \in {"helper", "inferred", "ranked", "returned"}

\* C5: a known title resolves to a summary recorded for that title, with or
\* without a supplied summary; an unknown title with a summary, or a summary
\* alone, resolves to the supplied summary; an accepted call has exactly one
\* query text and a rejected call none.
C5_QueryTextResolution ==
    /\ Accepted =>
          /\ Len(q.summary_) = 1
          /\ KnownTitle =>
                \E i \in 1..Len(Bundle.titles) :
                    Bundle.titles[i] = q.title[1] /\ q.summary_[1] = Bundle.summaries[i]
          /\ (Supplied(q.title) /\ ~KnownTitle /\ Supplied(q.summary)) =>
                q.summary_ = q.summary
          /\ (~Supplied(q.title) /\ Supplied(q.summary)) => q.summary_ = q.summary
    /\ q.pc = "raised" => q.summary_ = None

C5_Witness ==
    /\ q.pc = "returned"
    /\ q.impl = "core"
    /\ KnownTitle
    /\ Supplied(q.summary)
    /\ q.summary_ # q.summary

\* The spec's InvalidQueryError is the ValueError of the last branch.
InvalidQueryError == ErrNeitherProvided

\* C6: the core get_similar_books called with neither a title nor a summary
\* raises InvalidQueryError; nothing was inferred or ranked, and there is no
\* result list.
C6_NeitherSuppliedRaises ==
    (q.pc # "idle" /\ q.impl = "core" /\ ~Supplied(q.title) /\ ~Supplied(q.summary)) =>
        /\ q.pc = "raised"
        /\ q.error = InvalidQueryError
        /\ ~q.inferred
        /\ ~q.ranked
        /\ q.sims = <<>>
        /\ q.result = None

C6_Witness ==
    /\ q.pc = "raised"
    /\ q.impl = "core"
    /\ q.title = Some(<<>>)
    /\ q.summary = None
    /\ q.error = InvalidQueryError

\* The spec's UnknownTitleError: the ValueError of the title branch, and in
\* true_neutral.py the ValueError of `book not in titles`.
UnknownTitleError(impl) ==
    IF impl = "core" THEN ErrTitleNotInDatabase ELSE ErrBookNotFound

\* C7: a supplied title that is not in the title array, with no summary,
\* raises UnknownTitleError, which is not the InvalidQueryError of C6; no
\* result list is returned.
C7_UnknownTitleRaises ==
    (q.pc # "idle" /\ Supplied(q.title) /\ ~KnownTitle /\ ~Supplied(q.summary)) =>
        /\ q.pc = "raised"
        /\ q.error = UnknownTitleError(q.impl)
        /\ q.error.cls = "ValueError"
        /\ q.error # InvalidQueryError
        /\ ~q.inferred
        /\ q.result = None

C7_Witness ==
    /\ q.pc = "raised"
    /\ q.impl = "core"
    /\ q.title = Some(<<"Z">>)
    /\ q.summary = Some(<<>>)
    /\ q.error = ErrTitleNotInDatabase

-----------------------------------------------------------------------------
(* Properties of save_trained_model and load_trained_model *)

LoadOfSaved(impl) ==
    /\ sv.op = "load"
    /\ sv.impl = impl
    /\ sv.pc \in {"returned", "raised"}
    /\ sv.saved # None
    /\ sv.saved[1].impl = impl

\* C2: loading what save_trained_model wrote for a trained bundle succeeds
\* and yields the same model, the same four arrays in the same order and
\* the same two corpora, in either version of the two functions.
C2_LoadOfSaveIsBundle ==
    \A impl \in {"core", "legacy"} :
        LoadOfSaved(impl) =>
            /\ sv.pc = "returned"
            /\ sv.loaded = Some(sv.saved[1].bundle)

\* The same round trip for core/utils.py alone.
CoreLoadOfSaveIsBundle ==
    LoadOfSaved("core") =>
        /\ sv.pc = "returned"
        /\ sv.loaded = Some(sv.saved[1].bundle)
        /\ sv.loaded = tm.result

CoreLoadOfSaveReached == LoadOfSaved("core") /\ Len(sv.loaded[1].titles) >= 2

SaveFailed == sv.op = "save" /\ sv.pc = "raised"

\* C8 as stated: when save_trained_model fails at any step, every artifact
\* that existed before the call has its previous contents.
C8_FailedSaveKeepsArtifacts ==
    SaveFailed =>
        \A p \in Paths : sv.before[p] # None => fs.files[p] = sv.before[p]

IsPrefix(s, t) == Len(s) <= Len(t) /\ s = SubSeq(t, 1, Len(s))

\* C8 as amended: a failed save_trained_model has aborted; a file it had not
\* yet opened for writing has its previous contents (so a failure at mkdir or
\* at the first open changes no file); the file it was writing holds a proper
\* prefix of the new stream, its previous contents gone; the files the
\* legacy version had completed hold the new stream.
C8_FailedSaveKeepsUnopened ==
    SaveFailed =>
        /\ sv.saved = None
        /\ \A p \in Paths :
             (\A k \in 1..sv.opened : FilesOf(sv.impl)[k] # p) =>
                 fs.files[p] = sv.before[p]
        /\ \A k \in 1..sv.opened :
             LET p == FilesOf(sv.impl)[k]
                 stream == StreamOf(sv.impl, k, sv.model_data[1])
             IN /\ fs.files[p] # None
                /\ IsPrefix(fs.files[p][1], stream)
                /\ k < sv.opened => fs.files[p][1] = stream
                /\ (k = sv.opened /\ sv.error.msg = "write") => fs.files[p][1] # stream

C8_Witness ==
    /\ SaveFailed
    /\ sv.impl = "core"
    /\ sv.opened = 1
    /\ sv.before["bundle.pkl"] # None
    /\ fs.files["bundle.pkl"] # sv.before["bundle.pkl"]

-----------------------------------------------------------------------------
(* Properties of write_books *)

AllFetched ==
    /\ sc.next = Len(sc.book_links) + 1
    /\ \A i \in 1..Len(sc.book_links) : sc.results[i].filled
    /\ Len(sc.finished) = Len(sc.book_links)

\* C10: in write_books the output file is opened, and a record written to
\* it, only after every pool worker has finished its fetch and the pool has
\* been left: while any task is queued or running the file is as it was
\* before the call, and what the file holds afterwards is a prefix of the
\* collected results, never records streamed as the workers finish.
C10_WriteAfterJoin ==
    /\ (sc.opened \/ sc.out # sc.before) =>
          /\ AllFetched
          /\ sc.workers = <<>>
          /\ sc.books = sc.results
          /\ sc.out = Some(SubSeq(sc.books, 1, sc.written))
    /\ ~AllFetched => (~sc.opened /\ sc.written = 0 /\ sc.out = sc.before)

\* Two workers finished out of input order and the records were then written.
C10_Witness ==
    /\ sc.pc = "returned"
    /\ sc.nprocs = 2
    /\ sc.finished = <<2, 1>>
    /\ sc.written = 2
    /\ sc.before # None
    /\ sc.out # sc.before

-----------------------------------------------------------------------------
(* The three-book scenario *)

ResultTitles == [i \in 1..Len(q.result[1]) |-> q.result[1][i].title]

ScenarioQueryA ==
    /\ data = ThreeBooks
    /\ q.impl = "core"
    /\ q.title = Some(<<"A">>)
    /\ q.summary = None
    /\ q.nsim = 2

\* C11: trained on the three books A, B, C, the query title = "A" with
\* nsim = 2 returns B and then C, and A is not in the result.
C11_ScenarioReturnsBThenC ==
    (ScenarioQueryA /\ q.pc = "returned") =>
        ResultTitles = << <<"B">>, <<"C">> >>

\* What the code does fix in the scenario: all three books are ranked, the
\* first of the three is dropped unseen, and the two returned are the second
\* and third of the ranking, in descending order of score.
ScenarioReturnsRankedTail ==
    (ScenarioQueryA /\ q.pc = "returned") =>
        /\ Len(q.sims) = 3
        /\ Len(q.result[1]) = 2
        /\ \A i \in 1..2 :
              /\ q.result[1][i].title = Bundle.titles[q.sims[i + 1][1] + 1]
              /\ q.result[1][i].score = q.sims[i + 1][2]
        /\ q.result[1][1].score >= q.result[1][2].score

\* The scenario's query returning A itself, B having been ranked first.
ScenarioReturnsAItself ==
    /\ ScenarioQueryA
    /\ q.pc = "returned"
    /\ ResultTitles = << <<"A">>, <<"C">> >>

-----------------------------------------------------------------------------
(* The dropped first neighbour *)

\* The resolved query text is, to the character, the summary of some book.
QueryTextInCorpus == Contains(Bundle.summaries, q.summary_[1])

\* The first entry of sims is a book whose summary is the query text.
FirstIsOwnMatch == Bundle.summaries[q.sims[1][1] + 1] = q.summary_[1]

FirstKept ==
    /\ q.result[1] # <<>>
    /\ q.result[1][1] = BookOf(q.impl, q.show_summary, Bundle, q.sims[1])

\* C12: the first ranked neighbour is dropped only when it is the query's
\* match to itself, the query text being some book's summary; for a query
\* text that is no book's summary the most similar book is in the result.
C12_FirstDroppedOnlyWhenOwnMatch ==
    (q.pc = "returned" /\ q.sims # <<>>) =>
        /\ ~FirstKept => (QueryTextInCorpus /\ FirstIsOwnMatch)
        /\ ~QueryTextInCorpus => FirstKept

\* What the code does: the first entry of the ranking is left out whatever
\* it is, and the result is the rest of the ranking in its order.
FirstAlwaysDropped ==
    q.pc = "returned" =>
        /\ Len(q.sims) >= 1
        /\ Len(q.result[1]) = Len(q.sims) - 1
        /\ \A i \in 1..Len(q.result[1]) :
              q.result[1][i] = BookOf(q.impl, q.show_summary, Bundle, q.sims[i + 1])

\* A free-form summary, no book's own, whose best match was left out.
FreeTextBestMatchDropped ==
    /\ q.pc = "returned"
    /\ q.impl = "core"
    /\ ~Supplied(q.title)
    /\ Supplied(q.summary)
    /\ ~QueryTextInCorpus
    /\ Len(q.sims) = 2
    /\ ResultTitles = <<Bundle.titles[q.sims[2][1] + 1]>>

-----------------------------------------------------------------------------
(* The bundle across queries *)

\* The six data fields of the bundle train_model returned are those it was
\* built with.
BundleAsTrained ==
    LET b == tm.result[1] IN
    /\ b.titles = Column(data, "Title")
    /\ b.authors = Column(data, "Author")
    /\ b.genres = Column(data, "Genres")
    /\ b.summaries = SummaryColumn(data)
    /\ b.train_corpus = tm.train_corpus
    /\ b.test_corpus = tm.test_corpus

\* The query in hand, resolved again on the bundle as it is now, gives the
\* query text (or the error) it gave when it was called.
ResolvesAsBefore ==
    LET r == Resolve(q.impl, tm.result[1], q.title, q.summary) IN
    /\ r.summary_ = q.summary_
    /\ r.error = q.error

\* C13: after training the bundle is only read: at every point of every
\* sequence of get_similar_books calls, returned or raised, its titles,
\* authors, genres, summaries, train_corpus and test_corpus are as trained,
\* and a query resolves to the same query text whatever calls came before.
C13_BundleReadOnly ==
    tm.pc = "done" =>
        /\ BundleAsTrained
        /\ q.pc # "idle" =>
              /\ q.model_data = tm.result
              /\ ResolvesAsBefore

\* A title query has returned after one call that raised and one that
\* returned.
C13_Witness ==
    /\ tm.pc = "done"
    /\ q.pc = "returned"
    /\ q.prior = {"returned", "raised"}
    /\ KnownTitle
    /\ Len(tm.result[1].titles) >= 2
    /\ q.result[1] # <<>>

-----------------------------------------------------------------------------
(* Properties of get_single_book *)

\* Slot i holds a record get_single_book can return for link i.
RecordOfLink(book, i) == book \in GetSingleBook(sc.book_links[i])

\* C14: get_single_book hands a record back whatever its fetch did, empty
\* or partial after a status other than 200 or an exception, and runs once
\* for each link; write_books, when it returns, has written one record for
\* each input link in the order of the links, whichever fetches failed and
\* in whatever order the workers finished.
C14_OneRecordPerLinkInOrder ==
    /\ Injective(sc.finished)
    /\ \A j \in 1..Len(sc.finished) :
          /\ sc.finished[j] \in 1..Len(sc.book_links)
          /\ sc.results[sc.finished[j]].filled
    /\ \A i \in 1..Len(sc.results) :
          /\ sc.results[i].filled => RecordOfLink(sc.results[i], i)
          /\ sc.results[i].filled <=> \E j \in 1..Len(sc.finished) : sc.finished[j] = i
    /\ sc.pc = "returned" =>
          /\ Len(sc.finished) = Len(sc.book_links)
          /\ Len(sc.out[1]) = Len(sc.book_links)
          /\ \A i \in 1..Len(sc.book_links) : RecordOfLink(sc.out[1][i], i)

\* Two links fetched by two workers, the second finishing first: the first
\* fetch gave an empty record, the second one cut short after "id".
C14_Witness ==
    /\ sc.pc = "returned"
    /\ sc.nprocs = 2
    /\ sc.book_links = <<"u", "v">>
    /\ sc.finished = <<2, 1>>
    /\ sc.out = Some(<<Book("u", 0), Book("v", 1)>>)

-----------------------------------------------------------------------------
(* A title held by several records *)

\* The positions of the bundle's title array that hold the queried title.
TitlePositions == {i \in 1..Len(Bundle.titles) : Bundle.titles[i] = q.title[1]}

\* C15: when the queried title is at several indices of the title array, the
\* query text is the summary stored at the lowest of them, in both versions
\* of get_similar_books, and not the differing summary of a later record.
C15_DuplicateTitleUsesLowestIndex ==
    (Accepted /\ KnownTitle) =>
        \E i \in TitlePositions :
            /\ \A j \in TitlePositions : i <= j
            /\ q.summary_ = Some(Bundle.summaries[i])
            /\ \A j \in TitlePositions :
                  Bundle.summaries[j] # Bundle.summaries[i] =>
                      q.summary_ # Some(Bundle.summaries[j])

\* The title A is at two indices with two summaries, and the query by A has
\* returned.
C15_Witness ==
    /\ q.pc = "returned"
    /\ KnownTitle
    /\ Cardinality(TitlePositions) = 2
    /\ \E i, j \in TitlePositions :
          /\ i < j
          /\ Bundle.summaries[i] # Bundle.summaries[j]
          /\ q.summary_ = Some(Bundle.summaries[i])

=============================================================================
